---------------------------- MODULE Spec2Model ----------------------------
(***************************************************************************)
(* Left-truncatable primes generator (main.c): ModulusPow, Power,          *)
(* MillerRabin, IsPrime and FindLTP.                                       *)
(*                                                                         *)
(* Machine integers.  TLC's integers are 32-bit signed, so a uint32_t or   *)
(* uint64_t cannot be a TLC integer.  A machine word is modelled as a      *)
(* little-endian sequence of 16-bit limbs: two limbs for a uint32_t, four  *)
(* for a uint64_t.  <<13, 0>> is the uint32_t 13, <<0, 0, 1, 0>> is the    *)
(* uint64_t 2^32.  The small counters of the program (uint8_t, uint16_t    *)
(* indices and counts, all far below 2^16) are TLC integers.               *)
(***************************************************************************)
EXTENDS Integers, Sequences, FiniteSets, TLC

R == 2^16                    \* the limb radix

--------------------------------------------------------------------------
(* Conversions between TLC integers and words.                            *)

W32(x) == <<x % R, x \div R>>                 \* 0 <= x < 2^31 as a uint32_t
W64(x) == <<x % R, x \div R, 0, 0>>           \* 0 <= x < 2^31 as a uint64_t
Zext(w) == <<w[1], w[2], 0, 0>>               \* uint32_t -> uint64_t
Trunc32(w) == <<w[1], w[2]>>                  \* uint64_t -> uint32_t
Fits31(w) == w[2] < 2^15 /\ (Len(w) = 2 \/ (w[3] = 0 /\ w[4] = 0))
Fits30(w) == w[2] < 2^14 /\ (Len(w) = 2 \/ (w[3] = 0 /\ w[4] = 0))
Fits32(w) == Len(w) = 2 \/ (w[3] = 0 /\ w[4] = 0)
ToInt(w) == w[1] + w[2] * R                   \* only where Fits31(w)

--------------------------------------------------------------------------
(* Limb arithmetic on sequences of equal length.                          *)

RECURSIVE GeqFrom(_, _, _)
GeqFrom(a, b, k) ==
    IF k = 0 THEN TRUE
    ELSE IF a[k] # b[k] THEN a[k] > b[k]
    ELSE GeqFrom(a, b, k - 1)
GeqL(a, b) == GeqFrom(a, b, Len(a))           \* a >= b
LtL(a, b) == ~GeqL(a, b)                      \* a < b

\* a + b + c, one limb longer than a (the last limb is the carry out)
RECURSIVE AddFrom(_, _, _, _)
AddFrom(a, b, k, c) ==
    IF k > Len(a) THEN <<c>>
    ELSE LET s == a[k] + b[k] + c
         IN <<s % R>> \o AddFrom(a, b, k + 1, s \div R)
AddL(a, b) == AddFrom(a, b, 1, 0)

\* a - b - c for a >= b + c, as long as a
RECURSIVE SubFrom(_, _, _, _)
SubFrom(a, b, k, c) ==
    IF k > Len(a) THEN <<>>
    ELSE LET s == a[k] - b[k] - c
         IN IF s >= 0 THEN <<s>> \o SubFrom(a, b, k + 1, 0)
            ELSE <<s + R>> \o SubFrom(a, b, k + 1, 1)
SubL(a, b) == SubFrom(a, b, 1, 0)

IsZeroL(a) == \A k \in 1..Len(a) : a[k] = 0
RECURSIVE ZeroL(_)
ZeroL(n) == IF n = 0 THEN <<>> ELSE <<0>> \o ZeroL(n - 1)
PadL(a, n) == a \o ZeroL(n - Len(a))
OneL(n) == <<1>> \o ZeroL(n - 1)

\* The product of two limbs as <<low limb, high limb>>; the operands are
\* split into bytes so that no intermediate value reaches 2^31.
Mul16(a, b) ==
    LET p1 == a * (b \div 256)
        p0 == a * (b % 256)
        t  == (p1 % 256) * 256 + p0
    IN <<t % R, p1 \div 256 + t \div R>>

\* Column c (1-based) of the schoolbook product: the low limbs of the limb
\* products a[i]*b[j] with i+j-1 = c plus the high limbs of those with
\* i+j-1 = c-1.
ColSum(a, b, c) ==
    LET lows == {i \in 1..Len(a) : c + 1 - i \in 1..Len(b)}
        highs == {i \in 1..Len(a) : c - i \in 1..Len(b)}
        RECURSIVE SumLow(_)
        SumLow(S) == IF S = {} THEN 0
                     ELSE LET i == CHOOSE x \in S : TRUE
                          IN Mul16(a[i], b[c + 1 - i])[1] + SumLow(S \ {i})
        RECURSIVE SumHigh(_)
        SumHigh(S) == IF S = {} THEN 0
                      ELSE LET i == CHOOSE x \in S : TRUE
                           IN Mul16(a[i], b[c - i])[2] + SumHigh(S \ {i})
    IN SumLow(lows) + SumHigh(highs)

\* carry propagation over the columns 'from'..n
RECURSIVE Carry(_, _, _, _, _)
Carry(a, b, c, n, carry) ==
    IF c > n THEN <<>>
    ELSE LET s == ColSum(a, b, c) + carry
         IN <<s % R>> \o Carry(a, b, c + 1, n, s \div R)
\* the full product, Len(a) + Len(b) limbs
MulL(a, b) == Carry(a, b, 1, Len(a) + Len(b), 0)

LowL(a, n) == SubSeq(a, 1, n)
HighL(a, n) == SubSeq(a, n + 1, Len(a))

\* bit 'k' (0-based) of a
BitL(a, k) == (a[(k \div 16) + 1] \div (2^(k % 16))) % 2
\* a shifted right by one bit
RECURSIVE ShrFrom(_, _)
ShrFrom(a, k) ==
    IF k > Len(a) THEN <<>>
    ELSE << (a[k] \div 2) + (IF k < Len(a) THEN (a[k + 1] % 2) * (R \div 2) ELSE 0) >>
         \o ShrFrom(a, k + 1)
Shr1(a) == ShrFrom(a, 1)
IsEvenL(a) == a[1] % 2 = 0

--------------------------------------------------------------------------
(* Loops.  Repeat(Body, st, n) is the state after n executions of a loop   *)
(* body from state st.  A while loop is modelled by a body that leaves the *)
(* state alone once the loop condition is false, repeated as often as the *)
(* loop can run at all.  The recursion is balanced and each half is       *)
(* evaluated before the next one starts, which keeps TLC's evaluation     *)
(* stack shallow; the result is that of running the body n times in order.*)
(*                                                                         *)
(* TLC evaluates an operator's argument once and a LET definition at every *)
(* use, so values that are used more than once are passed as arguments.    *)

Then(half, Rest(_)) == IF half = half THEN Rest(half) ELSE half

RECURSIVE Repeat(_, _, _)
Repeat(Body(_), st, n) ==
    IF n = 0 THEN st
    ELSE IF n = 1 THEN Body(st)
    ELSE Then(Repeat(Body, st, n \div 2),
              LAMBDA half : Repeat(Body, half, n - n \div 2))

--------------------------------------------------------------------------
(* (a * b) % m for a, b < m, the product taken in uint64_t arithmetic.     *)
(*                                                                         *)
(* For m < 2^32 the product of two residues is below 2^64, so the C        *)
(* expression is the exact modular product.  It is computed by long        *)
(* multiplication and long division on digits of 15 bits, so that no       *)
(* intermediate value leaves the TLC integers:                             *)
(*   MulModInt     m < 2^30, residues as TLC integers                      *)
(*   MulModDigits  2^15 <= m < 2^32, residues as three digits             *)
(* The divisor is shifted left until its top digit is at least 2^14; the   *)
(* quotient digit estimated from the top digits is then at most three too  *)
(* small, which up to three subtractions of the divisor put right.         *)
(* For m >= 2^32 the product can exceed 2^64 - 1; MulModWide multiplies    *)
(* exactly, keeps the low 64 bits as the hardware does, and divides.       *)

B15 == 2^15

\* <<hi, lo>> standing for hi * 2^15 + lo, lo brought into 0..2^15-1
Split2(hi, lo) == <<hi + lo \div B15, lo % B15>>
Correct2(x, m1, m0) ==
    IF x[1] > m1 \/ (x[1] = m1 /\ x[2] >= m0) THEN Split2(x[1] - m1, x[2] - m0) ELSE x
MulSub2(r, d, m1, m0, q) == Split2(r - q * m1, d - q * m0)
Join2(x) == x[1] * B15 + x[2]

\* (r * 2^15 + d) % m for r < m, a digit d and 2^29 <= m < 2^30
DivStep2Of(r, d, m1, m0) ==
    Join2(Correct2(Correct2(Correct2(MulSub2(r, d, m1, m0, r \div (m1 + 1)),
                                     m1, m0), m1, m0), m1, m0))

\* a * b for a, b < 2^30 as <<digit 0, digit 1, the rest>>
Product2Sum(p00, mid, p11) ==
    << p00 % B15,
       (p00 \div B15 + (mid % B15)) % B15,
       p11 + mid \div B15 + (p00 \div B15 + (mid % B15)) \div B15 >>
Product2(a, b) ==
    Product2Sum((a % B15) * (b % B15),
                (a % B15) * (b \div B15) + (a \div B15) * (b % B15),
                (a \div B15) * (b \div B15))

\* p % (m1 * 2^15 + m0) for a product p of numbers below the divisor
Divide2(p, m1, m0) == DivStep2Of(DivStep2Of(p[3], p[2], m1, m0), p[1], m1, m0)

\* the s in 0..14 with 2^29 <= m * 2^s < 2^30, for 2^15 <= m < 2^30
NormShift(m) == CHOOSE s \in 0..14 : m < 2^(30 - s) /\ m >= 2^(29 - s)

\* the divisor m * t, t = 2^NormShift(m), as <<t, high digit, low digit>>
Norm2Of(mt, t) == <<t, mt \div B15, mt % B15>>
Norm2(m) == IF m < B15 THEN <<1, 0, m>> ELSE Norm2Of(m * 2^NormShift(m), 2^NormShift(m))

\* (a * b) % m for a, b < m < 2^30 and nrm = Norm2(m): a product below 2^31
\* is taken directly, a larger one from the divisor and one factor times t
MulModInt(a, b, m, nrm) ==
    IF a < 46341 /\ b < 46341 THEN (a * b) % m
    ELSE Divide2(Product2(a, b * nrm[1]), nrm[2], nrm[3]) \div nrm[1]

\* a uint64_t below 2^32 as three 15-bit digits, and back
Digits(w) == <<w[1] % B15, w[1] \div B15 + (w[2] % (2^14)) * 2, w[2] \div (2^14)>>
Undigits(x) == <<x[1] + (x[2] % 2) * B15, x[2] \div 2 + x[3] * 2^14, 0, 0>>

\* x * 2^t and x \div 2^t for t in 0..29 (no bit is lost in either)
ShlBits(x, t) ==
    << (x[1] * t) % B15,
       ((x[2] * t) % B15) + (x[1] * t) \div B15,
       ((x[3] * t) % B15) + (x[2] * t) \div B15 >>
Shl(x, s) == IF s >= 15 THEN ShlBits(<<0, x[1], x[2]>>, 2^(s - 15)) ELSE ShlBits(x, 2^s)
ShrBits(x, t) ==
    << x[1] \div t + (x[2] % t) * (B15 \div t),
       x[2] \div t + (x[3] % t) * (B15 \div t),
       x[3] \div t >>
Shr(x, s) == IF s >= 15 THEN ShrBits(<<x[2], x[3], 0>>, 2^(s - 15)) ELSE ShrBits(x, 2^s)

\* the number of bits of 1 <= d < 2^15
BitLen(d) == CHOOSE k \in 1..15 : d < 2^k /\ d >= 2^(k - 1)
\* the s with 2^44 <= m * 2^s < 2^45, for 2^15 <= m < 2^45
NormShift3(m) == IF m[3] > 0 THEN 15 - BitLen(m[3]) ELSE 30 - BitLen(m[2])

\* a * b for three-digit a and b, as six digits (the last one unreduced)
Carry6(c0, s1, t2, t3, t4, t5) ==
    << c0 % B15,
       (s1 + c0 \div B15) % B15,
       (t2 + (s1 + c0 \div B15) \div B15) % B15,
       (t3 + (t2 + (s1 + c0 \div B15) \div B15) \div B15) % B15,
       (t4 + (t3 + (t2 + (s1 + c0 \div B15) \div B15) \div B15) \div B15) % B15,
       t5 + (t4 + (t3 + (t2 + (s1 + c0 \div B15) \div B15) \div B15) \div B15) \div B15 >>
Lo(x) == x % B15
Hi(x) == x \div B15
Product3(a, b) ==
    Carry6(Lo(a[1] * b[1]),
           Hi(a[1] * b[1]) + Lo(a[1] * b[2]) + Lo(a[2] * b[1]),
           Hi(a[1] * b[2]) + Hi(a[2] * b[1]) + Lo(a[1] * b[3]) + Lo(a[2] * b[2]) + Lo(a[3] * b[1]),
           Hi(a[1] * b[3]) + Hi(a[2] * b[2]) + Hi(a[3] * b[1]) + Lo(a[2] * b[3]) + Lo(a[3] * b[2]),
           Hi(a[2] * b[3]) + Hi(a[3] * b[2]) + Lo(a[3] * b[3]),
           Hi(a[3] * b[3]))

\* digits t0, t1, t2 of any sign brought into 0..2^15-1, the top one apart
Carry3(t0, t1, t2) ==
    <<t0 % B15, (t1 + t0 \div B15) % B15, t2 + (t1 + t0 \div B15) \div B15>>
Correct3(x, m) ==
    IF x[3] > m[3] \/ (x[3] = m[3] /\ (x[2] > m[2] \/ (x[2] = m[2] /\ x[1] >= m[1])))
    THEN Carry3(x[1] - m[1], x[2] - m[2], x[3] - m[3])
    ELSE x
MulSub3(r, d, m, q) ==
    Carry3(d - q * m[1], r[1] - q * m[2], r[2] - q * m[3] + r[3] * B15)

\* (r * 2^15 + d) % m for r < m, a digit d and 2^44 <= m < 2^45
DivStep3(r, d, m) ==
    Correct3(Correct3(Correct3(
        MulSub3(r, d, m, (r[3] * B15 + r[2]) \div (m[3] + 1)), m), m), m)

Divide3(p, m) ==
    DivStep3(DivStep3(DivStep3(<<p[4], p[5], p[6]>>, p[3], m), p[2], m), p[1], m)

\* (a * b) % m for a, b < m, 2^15 <= m < 2^32, all as digits; ms is m
\* shifted by s = NormShift3(m)
MulModDigits(a, b, ms, s) == Shr(Divide3(Product3(a, Shl(b, s)), ms), s)

\* x % m for a 64-bit x and m > 0, by binary long division: st = <<r, j>>,
\* r a five-limb remainder (below 2*m), j bits of x still to bring down
RedL(d, m) == IF GeqL(d, m) THEN SubL(d, m) ELSE d
ModStep(st, x, m5) ==
    << RedL(LowL(AddFrom(st[1], st[1], 1, BitL(x, st[2] - 1)), 5), m5), st[2] - 1 >>

\* x % m for an x of 'bits' bits
ModBits(x, m, bits) ==
    LowL(Repeat(LAMBDA st : ModStep(st, x, PadL(m, 5)), <<ZeroL(5), bits>>, bits)[1], 4)
ModWide(x, m) == ModBits(x, m, 64)

\* whether the product a * b exceeds 2^64 - 1
MulOverflows(a, b) == ~IsZeroL(HighL(MulL(a, b), 4))

MulModWide(a, b, m) == ModWide(LowL(MulL(a, b), 4), m)

\* x % m in uint64_t
ModW(x, m) ==
    IF LtL(x, m) THEN x
    ELSE IF Fits31(x) THEN W64(ToInt(x) % ToInt(m))
    ELSE ModWide(x, m)

\* ((a % m) * (b % m)) % m in uint64_t, as written at lines 69, 70 and 133
MulReduced(x, y, m) ==
    IF Fits30(m) THEN W64(MulModInt(ToInt(x), ToInt(y), ToInt(m), Norm2(ToInt(m))))
    ELSE IF Fits32(m)
    THEN Undigits(MulModDigits(Digits(x), Digits(y),
                               Shl(Digits(m), NormShift3(Digits(m))),
                               NormShift3(Digits(m))))
    ELSE MulModWide(x, y, m)
MulMod(a, b, m) == MulReduced(ModW(a, m), ModW(b, m), m)

--------------------------------------------------------------------------
(* uint64_t ModulusPow (uint64_t base, uint64_t exp, uint64_t mod)         *)
(* Precondition mod > 0 (mod = 0 divides by zero).                         *)

\* one pass of `while (exp > 0)`: st = <<base, exp, result>>
ModulusPowBody(st, mod) ==
    IF IsZeroL(st[2]) THEN st
    ELSE << MulMod(st[1], st[1], mod),
            Shr1(st[2]),
            IF IsEvenL(st[2]) THEN st[3] ELSE MulMod(st[3], st[1], mod) >>

\* the same pass with base, exp and result as TLC integers, for mod < 2^30
\* and exp < 2^31; nrm = Norm2(mod)
ModulusPowBodyInt(st, mod, nrm) ==
    IF st[2] = 0 THEN st
    ELSE << MulModInt(st[1] % mod, st[1] % mod, mod, nrm),
            st[2] \div 2,
            IF st[2] % 2 = 0 THEN st[3]
            ELSE MulModInt(st[3] % mod, st[1] % mod, mod, nrm) >>
ModulusPowInt(base, exp, mod, nrm, passes) ==
    Repeat(LAMBDA st : ModulusPowBodyInt(st, mod, nrm), <<base % mod, exp, 1>>, passes)[3]

\* the same pass with base and result as digits, for 2^30 <= mod < 2^32 and
\* exp < 2^31; ms is mod shifted by s = NormShift3(mod).  base and result
\* stay below mod, so that `% mod` leaves them as they are
ModulusPowBodyDigits(st, ms, s) ==
    IF st[2] = 0 THEN st
    ELSE << MulModDigits(st[1], st[1], ms, s),
            st[2] \div 2,
            IF st[2] % 2 = 0 THEN st[3]
            ELSE MulModDigits(st[3], st[1], ms, s) >>
ModulusPowDigitsShifted(base, exp, ms, s, passes) ==
    Repeat(LAMBDA st : ModulusPowBodyDigits(st, ms, s), <<base, exp, <<1, 0, 0>> >>, passes)[3]
ModulusPowDigits(base, exp, m, s, passes) ==
    ModulusPowDigitsShifted(base, exp, Shl(m, s), s, passes)

\* the number of passes of the loop: exp is halved until it is zero
RECURSIVE BitsFrom(_, _)
BitsFrom(a, k) ==
    IF k = 0 THEN 0
    ELSE IF a[k] = 0 THEN BitsFrom(a, k - 1)
    ELSE 16 * (k - 1) + (CHOOSE j \in 1..16 : a[k] < 2^j /\ a[k] >= 2^(j - 1))
BitsL(a) == BitsFrom(a, Len(a))

ModulusPow(base, exp, mod) ==
    IF Fits31(exp) /\ Fits30(mod)
    THEN W64(ModulusPowInt(ToInt(ModW(base, mod)), ToInt(exp), ToInt(mod),
                           Norm2(ToInt(mod)), BitsL(exp)))
    ELSE IF Fits31(exp) /\ Fits32(mod)
    THEN Undigits(ModulusPowDigits(Digits(ModW(base, mod)), ToInt(exp), Digits(mod),
                                   NormShift3(Digits(mod)), BitsL(exp)))
    ELSE Repeat(LAMBDA st : ModulusPowBody(st, mod),
                <<ModW(base, mod), exp, W64(1)>>, BitsL(exp))[3]

\* bool IsEven (uint32_t val)
IsEven(val) == val[1] % 2 = 0

\* a * b and a + b in uint32_t
Mul32(a, b) == LowL(MulL(a, b), 2)
Add32(a, b) == LowL(AddL(a, b), 2)

\* uint32_t Power (uint32_t val, uint8_t n)
Power(val, n) ==
    IF n # 0
    THEN Repeat(LAMBDA x : Mul32(x, val), val, n - 1)
    ELSE W32(1)

--------------------------------------------------------------------------
(* bool MillerRabin (uint64_t n, uint32_t* g, uint8_t k)                   *)

\* n - 1 in uint64_t
Dec64(n) == IF IsZeroL(n) THEN <<R - 1, R - 1, R - 1, R - 1>> ELSE SubL(n, OneL(4))

\* `while (IsEven(d)) { s++; d >>= 1; }`: <<d, s>> after the loop.  d = 0
\* (n = 1) never leaves the loop in C; IsPrime does not pass n = 1, and
\* the passes are cut off at 32 here.
RECURSIVE DecomposeLoop(_, _)
DecomposeLoop(d, s) ==
    IF IsEven(d) /\ s < 32 THEN DecomposeLoop(Shr1(d), s + 1) ELSE <<d, s>>
Decompose(n) == DecomposeLoop(Trunc32(Dec64(n)), 0)

\* one pass of `for (i = 1; i < s; i++)`: st = <<x, i, how>>, how is
\* "loop" while the loop runs, "false" after `return false`, "break" after
\* `break`
SquareTest(y, i, n) ==
    IF y = W64(1) THEN <<y, i, "false">>
    ELSE IF y = Dec64(n) THEN <<y, i, "break">>
    ELSE <<y, i + 1, "loop">>
SquareBody(st, n, s) ==
    IF st[3] # "loop" \/ st[2] >= s THEN st
    ELSE SquareTest(MulMod(st[1], st[1], n), st[2], n)

\* the body of `while (k)` for one guess: TRUE when the loop goes on to
\* the next guess, FALSE on `return false`
GuessTest(x, n, s) ==
    IF x = W64(1) \/ x = Dec64(n) THEN TRUE
    ELSE Repeat(LAMBDA st : SquareBody(st, n, s), <<x, 1, "loop">>, s - 1)[3] = "break"
GuessPasses(n, guess, d, s) == GuessTest(ModulusPow(Zext(guess), Zext(d), n), n, s)

\* `while (k) { x = ModulusPow(g[--k], d, n); ... }`
RECURSIVE GuessLoop(_, _, _, _, _)
GuessLoop(n, g, k, d, s) ==
    IF k = 0 THEN TRUE
    ELSE IF GuessPasses(n, g[k], d, s) THEN GuessLoop(n, g, k - 1, d, s)
    ELSE FALSE

GuessesPass(n, g, k, ds) == GuessLoop(n, g, k, ds[1], ds[2])
MillerRabin(n, g, k) == GuessesPass(n, g, k, Decompose(n))

--------------------------------------------------------------------------
(* bool IsPrime (uint32_t n)                                               *)

Limit1 == W64(2047)
Limit2 == W64(1373653)
Limit3 == W64(9080191)
Limit4 == W64(25326001)
Limit5 == <<29893, 7082, 1, 0>>        \* 4759123141 = 1*2^32 + 7082*2^16 + 29893

\* a variant without the witness loop: every odd n above 1 passes
IsPrimeWithoutWitnesses(n) == ~IsEven(n) /\ ~LtL(n, W32(2))

IsPrime(n) ==
    IF IsEven(n) \/ LtL(n, W32(2)) THEN FALSE
    ELSE IF LtL(Zext(n), Limit1) THEN MillerRabin(Zext(n), <<W32(2)>>, 1)
    ELSE IF LtL(Zext(n), Limit2) THEN MillerRabin(Zext(n), <<W32(2), W32(3)>>, 2)
    ELSE IF LtL(Zext(n), Limit3) THEN MillerRabin(Zext(n), <<W32(31), W32(73)>>, 2)
    ELSE IF LtL(Zext(n), Limit4) THEN MillerRabin(Zext(n), <<W32(2), W32(3), W32(5)>>, 3)
    ELSE IF LtL(Zext(n), Limit5) THEN MillerRabin(Zext(n), <<W32(2), W32(7), W32(61)>>, 3)
    ELSE "no return statement"         \* not reached: every uint32_t is below Limit5

--------------------------------------------------------------------------
(* uint32_t FindLTP (uint16_t LTP_n)                                       *)
(*                                                                         *)
(* The function is cut at its loop tests and at the two points that follow *)
(* a counted prime; pc names the line the run is at.  The uint16_t locals  *)
(* are TLC integers: none of them gets near 2^16.  The uint32_t values     *)
(* are two-limb words.  C index k of LTP_Buf is element k + 1 of the       *)
(* sequence.                                                               *)
(*                                                                         *)
(* The argument is read in two comparisons only (lines 194 and 215), so    *)
(* the runs of all arguments are followed together: LTP_n = <<lo, hi>>     *)
(* says that the argument is one of lo..hi, every one of which has made    *)
(* the run so far; a comparison that can come out either way splits the    *)
(* range, and at a return lo = hi is the argument of the call.             *)

BUF_LENGTH == 680
MaxInput == 2166

VARIABLES
    call,               \* the call: <<"FindLTP">>, <<"IsPrime", n>>,
                        \*           <<"ModulusPow", base, exp, mod>>
    pc,                 \* "call", a line of FindLTP, or "return <line>"
    retval,             \* the value returned, <<>> before the return
    LTP_n,
    LTP_Buf, LTP_IndexProc, LTP_IndexFree, LTP_IndexOldFree,
    u, i, v, order, PrimesCount, num, PwVal, PwValN

locals == <<LTP_Buf, LTP_IndexProc, LTP_IndexFree, LTP_IndexOldFree,
            u, i, v, order, PrimesCount, num, PwVal, PwValN>>
vars == <<call, pc, retval, LTP_n, locals>>

Min(a, b) == IF a <= b THEN a ELSE b

\* uint32_t LTP_Buf[BUF_LENGTH] = {2, 3, 5, 7}: the rest is zero
InitBuf ==
    Repeat(LAMBDA b : Append(b, W32(0)), <<W32(2), W32(3), W32(5), W32(7)>>,
           BUF_LENGTH - 4)

\* The locals after the declarations of lines 188-191.  num, PwVal, PwValN,
\* u, i and v hold no value yet; each is assigned before it is first read,
\* and is shown as zero until then.
Frame ==
    /\ LTP_Buf = InitBuf
    /\ LTP_IndexProc = 0 /\ LTP_IndexFree = 4 /\ LTP_IndexOldFree = 0
    /\ order = 0 /\ PrimesCount = 4
    /\ u = 0 /\ i = 0 /\ v = 0
    /\ num = W32(0) /\ PwVal = W32(0) /\ PwValN = W32(0)

\* FindLTP called by main, which accepts 1..2166 only (line 260)
Init ==
    /\ call = <<"FindLTP">>
    /\ pc = "line 194"
    /\ retval = <<>>
    /\ LTP_n = <<1, MaxInput>>
    /\ Frame

\* FindLTP called with any uint16_t
InitAny ==
    /\ call = <<"FindLTP">>
    /\ pc = "line 194"
    /\ retval = <<>>
    /\ LTP_n = <<0, 2^16 - 1>>
    /\ Frame

\* what a read of LTP_Buf[-1] can deliver: the array is not read, whatever
\* lies before it is
StrayWords == {W32(0), W32(7), <<R - 1, R - 1>>}

\* `if (LTP_n <= 4) return LTP_Buf[LTP_n - 1];`
SingleCases ==
    /\ pc = "line 194"
    /\ \/ \E n \in LTP_n[1]..Min(4, LTP_n[2]) :
            /\ LTP_n' = <<n, n>>
            /\ retval' \in (IF n = 0 THEN StrayWords ELSE {LTP_Buf[n]})
            /\ pc' = "return 195"
       \/ /\ LTP_n[2] > 4
          /\ LTP_n' = <<IF LTP_n[1] > 5 THEN LTP_n[1] ELSE 5, LTP_n[2]>>
          /\ retval' = retval
          /\ pc' = "line 198"
    /\ UNCHANGED <<call, locals>>

\* a variant that makes one round only
OrderInFirstRound(o) == o < 1

\* the condition of `while (order < 9)`
OrderInRange(o) == o < 9

\* line 198; lines 201-204 when the loop is entered, line 242 when it is not
While ==
    /\ pc = "line 198"
    /\ IF OrderInRange(order)
       THEN /\ order' = order + 1
            /\ PwVal' = Power(W32(10), order')
            /\ LTP_IndexOldFree' = LTP_IndexFree
            /\ i' = 1
            /\ pc' = "line 204"
            /\ retval' = retval
       ELSE /\ retval' = W32(0)
            /\ pc' = "return 242"
            /\ UNCHANGED <<order, PwVal, LTP_IndexOldFree, i>>
    /\ UNCHANGED <<call, LTP_n, LTP_Buf, LTP_IndexProc, LTP_IndexFree, u, v,
                   PrimesCount, num, PwValN>>

\* the test of `for (i = 1; i < 10; i++)`; line 238 when the loop is left
ForI ==
    /\ pc = "line 204"
    /\ IF i < 10
       THEN /\ u' = LTP_IndexProc
            /\ pc' = "line 206"
            /\ UNCHANGED LTP_IndexProc
       ELSE /\ LTP_IndexProc' = LTP_IndexOldFree
            /\ pc' = "line 198"
            /\ UNCHANGED u
    /\ UNCHANGED <<call, retval, LTP_n, LTP_Buf, LTP_IndexFree,
                   LTP_IndexOldFree, i, v, order, PrimesCount, num, PwVal, PwValN>>

\* a variant that leaves the digit out of the product
CandidateWithoutDigit(rec, digit, pw) == Add32(rec, pw)

\* `LTP_Buf[u++] + i * PwVal` in uint32_t
Candidate(rec, digit, pw) == Add32(rec, Mul32(W32(digit), pw))

\* a variant that wraps the index after 32 slots
NextIndexOfShortBuffer(k) == IF k + 1 >= 2^5 THEN 0 ELSE k + 1

\* `k++; if (k >= BUF_LENGTH) k = 0;` of lines 208-211 and 230-233
NextIndex(k) == IF k + 1 >= BUF_LENGTH THEN 0 ELSE k + 1

\* `for (v = 1; v < 10; v++) if (IsPrime(num + PwValN * v)) break;`:
\* the value of v after the loop, started at w
RECURSIVE ProbeLoop(_, _, _)
ProbeLoop(n, pw, w) ==
    IF w >= 10 THEN w
    ELSE IF IsPrime(Add32(n, Mul32(pw, W32(w)))) THEN w
    ELSE ProbeLoop(n, pw, w + 1)

\* The test of `for (u = LTP_IndexProc; u != LTP_IndexOldFree; )` and lines
\* 208-225: the candidate, its test, the count, and then the return or the
\* probes.  `++PrimesCount == LTP_n` is true when the argument is the new
\* count and false when it is another one of the range.
ForU ==
    /\ pc = "line 206"
    /\ IF u # LTP_IndexOldFree
       THEN /\ num' = Candidate(LTP_Buf[u + 1], i, PwVal)
            /\ u' = NextIndex(u)
            /\ i' = i
            /\ IF IsPrime(num')
               THEN /\ PrimesCount' = PrimesCount + 1
                    /\ \/ /\ PrimesCount' \in LTP_n[1]..LTP_n[2]
                          /\ LTP_n' = <<PrimesCount', PrimesCount'>>
                          /\ retval' = num'
                          /\ pc' = "return 216"
                          /\ UNCHANGED <<PwValN, v>>
                       \/ /\ LTP_n' = IF PrimesCount' = LTP_n[1]
                                       THEN <<LTP_n[1] + 1, LTP_n[2]>>
                                       ELSE LTP_n
                          /\ LTP_n'[1] <= LTP_n'[2]
                          /\ retval' = retval
                          /\ PwValN' = Power(W32(10), order + 1)
                          /\ v' = ProbeLoop(num', PwValN', 1)
                          /\ pc' = "line 227"
               ELSE /\ pc' = "line 206"
                    /\ UNCHANGED <<PrimesCount, LTP_n, retval, PwValN, v>>
       ELSE /\ i' = i + 1
            /\ pc' = "line 204"
            /\ UNCHANGED <<num, u, PrimesCount, LTP_n, retval, PwValN, v>>
    /\ UNCHANGED <<call, LTP_Buf, LTP_IndexProc, LTP_IndexFree,
                   LTP_IndexOldFree, order, PwVal>>

\* lines 227-234
Store ==
    /\ pc = "line 227"
    /\ IF v < 10
       THEN /\ LTP_Buf' = [LTP_Buf EXCEPT ![LTP_IndexFree + 1] = num]
            /\ LTP_IndexFree' = NextIndex(LTP_IndexFree)
       ELSE UNCHANGED <<LTP_Buf, LTP_IndexFree>>
    /\ pc' = "line 206"
    /\ UNCHANGED <<call, retval, LTP_n, LTP_IndexProc, LTP_IndexOldFree,
                   u, i, v, order, PrimesCount, num, PwVal, PwValN>>

Next == SingleCases \/ While \/ ForI \/ ForU \/ Store

Spec == Init /\ [][Next]_vars
SpecAny == InitAny /\ [][Next]_vars

ReturnPcs == {"return 195", "return 216", "return 242"}

\* A call runs to its end: nothing suspends it.  This is WF_vars(Next) with
\* ENABLED <<Next>>_vars written out: a step of Next is possible exactly
\* when the call has not returned.
RunsToReturn == []<>(pc \in ReturnPcs) \/ []<><<Next>>_vars
SpecFair == Init /\ [][Next]_vars /\ RunsToReturn

--------------------------------------------------------------------------
(* IsPrime and ModulusPow called on their own.                             *)

MaxPrimeArg == 10000
MaxSmallBase == 6
MaxExp == 6
MaxSmallMod == 6

\* FindLTP is not running
NoFrame ==
    /\ LTP_n = <<>> /\ LTP_Buf = <<>>
    /\ LTP_IndexProc = 0 /\ LTP_IndexFree = 0 /\ LTP_IndexOldFree = 0
    /\ order = 0 /\ PrimesCount = 0
    /\ u = 0 /\ i = 0 /\ v = 0
    /\ num = W32(0) /\ PwVal = W32(0) /\ PwValN = W32(0)

InitPrime ==
    /\ call \in {<<"IsPrime", W32(n)>> : n \in 1..MaxPrimeArg}
    /\ pc = "call"
    /\ retval = <<>>
    /\ NoFrame

CallIsPrime ==
    /\ pc = "call"
    /\ call[1] = "IsPrime"
    /\ retval' = IsPrime(call[2])
    /\ pc' = "return"
    /\ UNCHANGED <<call, LTP_n, locals>>

NextPrime == CallIsPrime
SpecPrime == InitPrime /\ [][NextPrime]_vars

TwoTo32 == <<0, 0, 1, 0>>
MaxWord64 == <<R - 1, R - 1, R - 1, R - 1>>
PowBases == {W64(b) : b \in 0..MaxSmallBase} \cup {TwoTo32, MaxWord64}
PowExps == {W64(e) : e \in 0..MaxExp}
PowMods == {W64(m) : m \in 1..MaxSmallMod} \cup {<<1, 0, 1, 0>>, MaxWord64}

InitPow ==
    /\ call \in {<<"ModulusPow", b, e, m>> : b \in PowBases, e \in PowExps, m \in PowMods}
    /\ pc = "call"
    /\ retval = <<>>
    /\ NoFrame

CallModulusPow ==
    /\ pc = "call"
    /\ call[1] = "ModulusPow"
    /\ retval' = ModulusPow(call[2], call[3], call[4])
    /\ pc' = "return"
    /\ UNCHANGED <<call, LTP_n, locals>>

NextPow == CallModulusPow
SpecPow == InitPow /\ [][NextPow]_vars

\* Whether a product of the loop of ModulusPow exceeds 2^64 - 1:
\* st = <<base, exp, result, some product so far has>>
WrapBody(st, mod) ==
    IF IsZeroL(st[2]) THEN st
    ELSE << MulMod(st[1], st[1], mod),
            Shr1(st[2]),
            IF IsEvenL(st[2]) THEN st[3] ELSE MulMod(st[3], st[1], mod),
            \/ st[4]
            \/ MulOverflows(ModW(st[1], mod), ModW(st[1], mod))
            \/ ~IsEvenL(st[2]) /\ MulOverflows(ModW(st[3], mod), ModW(st[1], mod)) >>
ModulusPowWraps(base, exp, mod) ==
    Repeat(LAMBDA st : WrapBody(st, mod),
           <<ModW(base, mod), exp, W64(1), FALSE>>, BitsL(exp))[4]

--------------------------------------------------------------------------
(* Reference arithmetic, independent of the code above.                    *)

\* the primes up to 316 and up to 10^5, by trial division
PrimesTo316 == {p \in 2..316 : \A q \in 2..17 : q >= p \/ p % q # 0}
PrimesTo100000 == {p \in 2..100000 : \A q \in PrimesTo316 : q >= p \/ p % q # 0}
PrimesTo3162 == {p \in PrimesTo100000 : p <= 3162}
PrimesTo46340 == {p \in PrimesTo100000 : p <= 46340}

\* trial division of 0 <= n < 2^31 by the primes up to its square root
TrialPrime(n) ==
    /\ n > 1
    /\ \A p \in (IF n < 100000 THEN PrimesTo316
                  ELSE IF n < 10000000 THEN PrimesTo3162
                  ELSE PrimesTo46340) : p >= n \/ n % p # 0

\* trial division of x + d * 10^9 for x < 10^9 and d in 1..9, on residues
TrialPrimeWide(x, d) ==
    \A p \in PrimesTo100000 : ((x % p) + ((d * (1000000000 % p)) % p)) % p # 0

\* the left-truncatable primes of k + 1 digits from those of k digits
Prepend(level, k) ==
    {y \in {d * 10^k + x : d \in 1..9, x \in level} : TrialPrime(y)}
Grow(new, st) == <<new, st[2] \cup new, st[3] + 1>>
\* all left-truncatable primes of at most 9 digits: there are 2166
RefLTP ==
    Repeat(LAMBDA st : Grow(Prepend(st[1], st[3]), st),
           <<{2, 3, 5, 7}, {2, 3, 5, 7}, 1>>, 8)[2]
\* x is the n-th left-truncatable prime
IsNthLTP(x, n) == x \in RefLTP /\ Cardinality({y \in RefLTP : y <= x}) = n

\* the number of decimal digits of 1 <= x < 10^9
DigitCount(x) == CHOOSE k \in 1..9 : x < 10^k /\ x >= 10^(k - 1)
\* some digit 1..9 put in front of x < 10^9 gives a prime
HasPrimeExtension(x) ==
    \E d \in 1..9 :
        IF DigitCount(x) < 9 THEN TrialPrime(x + d * 10^DigitCount(x))
        ELSE TrialPrimeWide(x, d)

\* exact b^e mod m for e >= 1, every product taken in full
ExactMulMod(x, y, m) == ModBits(MulL(x, y), m, 128)
ExactPowMod(b, e, m) ==
    Repeat(LAMBDA r : ExactMulMod(r, ModW(b, m), m), ModW(b, m), ToInt(e) - 1)

\* 10^k and x + w * 10^k as exact numbers (nine limbs)
ExactPow10(k) == Repeat(LAMBDA x : LowL(MulL(x, W64(10)), 4), W64(1), k)
ExactSum(x, w, k) == AddL(PadL(x, 8), MulL(W64(w), ExactPow10(k)))
BelowLimits(x) == LtL(x, PadL(TwoTo32, 9)) /\ LtL(x, PadL(Limit5, 9))

\* slot k lies in the cyclic range from..to-1 of slots
InRange(k, from, to) ==
    IF from <= to THEN from <= k /\ k < to ELSE k >= from \/ k < to

--------------------------------------------------------------------------
(* The claims.                                                             *)

\* C1: for every n in 1..2166 FindLTP(n) returns the n-th left-truncatable
\* prime in increasing order (so 2, 3, 5, 7 for n in 1..4, and strictly
\* increasing values).
C1_ReturnsNthLTP ==
    pc \in ReturnPcs =>
        /\ LTP_n[1] = LTP_n[2]
        /\ Fits31(retval)
        /\ IsNthLTP(ToInt(retval), LTP_n[1])
C1_ReturnedFromFifthRound == pc = "return 216" /\ order = 5

\* C2 as amended: FindLTP(5), FindLTP(6) and FindLTP(7) return 13, 17 and 23,
\* the first three primes the order-1 round counts after the seeds.
C2_FirstAfterSeeds ==
    pc \in ReturnPcs =>
        /\ LTP_n = <<5, 5>> => retval = W32(13)
        /\ LTP_n = <<6, 6>> => retval = W32(17)
        /\ LTP_n = <<7, 7>> => retval = W32(23)
C2_SeventhReturned == pc = "return 216" /\ LTP_n = <<7, 7>>
\* C2 as stated: they return 23, 29 and 31.
C2_AsStated ==
    pc \in ReturnPcs =>
        /\ LTP_n = <<5, 5>> => retval = W32(23)
        /\ LTP_n = <<6, 6>> => retval = W32(29)
        /\ LTP_n = <<7, 7>> => retval = W32(31)

\* C3: for every n in 1..10000 IsPrime(n) is true exactly when trial
\* division says that n is prime.
C3_AgreesWithTrialDivision ==
    (pc = "return" /\ call[1] = "IsPrime") => (retval = TrialPrime(ToInt(call[2])))

\* C4: every number handed to IsPrime during FindLTP(n), n in 1..2166, is as
\* an exact number below 4759123141 and below 2^32: the scan candidate
\* record + i * 10^order about to be tested, and the probes
\* num + w * 10^(order + 1) that the probe loop has tested.
C4_NothingWraps ==
    /\ (pc = "line 206" /\ u # LTP_IndexOldFree)
          => BelowLimits(ExactSum(LTP_Buf[u + 1], i, order))
    /\ pc = "line 227"
          => \A w \in 1..Min(v, 9) : BelowLimits(ExactSum(num, w, order + 1))

\* C5: ModulusPow(b, e, 1) returns 0 for every b and every e, e = 0
\* included, and ModulusPow(0, 0, m) returns 1 for every m > 0.
C5_ModulusOneGivesZero ==
    (pc = "return" /\ call[1] = "ModulusPow") =>
        /\ call[4] = W64(1) => retval = W64(0)
        /\ (call[2] = W64(0) /\ call[3] = W64(0)) => retval = W64(1)

C7_ExhaustionIsAnError ==
    pc = "return 242" => ~(Len(retval) = 2 /\ \A k \in 1..2 : retval[k] \in 0..(R - 1))

\* C8 as amended: a store at LTP_IndexFree never lands on a slot of the
\* window that is still to be read in the round, in the pass of the current
\* digit or of a later one, so the nine passes read the same records.
C8_StoreSparesUnread ==
    (pc = "line 227" /\ v < 10) =>
        ~InRange(LTP_IndexFree,
                 IF i < 9 THEN LTP_IndexProc ELSE u, LTP_IndexOldFree)
C8_StoreOnReadSlot ==
    /\ pc = "line 227" /\ v < 10
    /\ InRange(LTP_IndexFree, LTP_IndexProc, LTP_IndexOldFree)
\* C8 as stated: moreover the window and the records stored in the round
\* never take more than the 680 slots, that is, no store lands on a slot of
\* the window at all.
C8_AsStated ==
    (pc = "line 227" /\ v < 10) =>
        ~InRange(LTP_IndexFree, LTP_IndexProc, LTP_IndexOldFree)

\* C9: every value in a written slot of LTP_Buf, the seeds included, gives
\* a prime when some digit 1..9 is put in front of it.  (A slot is written
\* when it is not zero; the values of FindLTP(n), n <= 2166, are below 10^9.)
C9_BufferExtendable ==
    pc \notin {"call", "return"} =>
        \A k \in 1..BUF_LENGTH :
            LTP_Buf[k] # W32(0) => HasPrimeExtension(ToInt(LTP_Buf[k]))

\* C10: no product inside ModulusPow exceeds 2^64 - 1, and for an exponent
\* >= 1 the result is base^exponent mod modulus.
C10_NoProductWraps ==
    (pc = "return" /\ call[1] = "ModulusPow") =>
        /\ ~ModulusPowWraps(call[2], call[3], call[4])
        /\ call[3] # W64(0) => retval = ExactPowMod(call[2], call[3], call[4])

=============================================================================
